---------------------------- MODULE Spec2Model ----------------------------
(*************************************************************************)
(* ReviewLens AI: the analysis controller of src/src/App.tsx.            *)
(*                                                                       *)
(* The component holds four pieces of React state (review, loading,      *)
(* result, error).  The "Run Analysis" button calls analyzeReview, which *)
(* issues one generateContent call to the external model and, when the   *)
(* call settles, parses response.text with JSON.parse and stores the     *)
(* outcome.                                                              *)
(*                                                                       *)
(* JavaScript values are modelled as records of one shape,               *)
(*     [type, str, members]                                              *)
(* so that null, strings, numbers, booleans, arrays and objects can all  *)
(* be stored in the same variable and compared.  The review text is a    *)
(* sequence of characters (trim() works on characters); the payload of   *)
(* the model's response is a sequence of lexical tokens (JSON.parse      *)
(* works on them).                                                       *)
(*************************************************************************)
EXTENDS Integers, Sequences, FiniteSets, TLC

(* Longest review text the textarea is given in the model. *)
MaxLen == 2

(* Most generateContent calls that may be outstanding at once. *)
MaxInFlight == 2

-----------------------------------------------------------------------------
(* JavaScript values *)

JSNull == [type |-> "null", str |-> "", members |-> <<>>]

JSString(s) == [type |-> "string", str |-> s, members |-> <<>>]

JSNumber(s) == [type |-> "number", str |-> s, members |-> <<>>]

JSBoolean(s) == [type |-> "boolean", str |-> s, members |-> <<>>]

JSArray(ms) == [type |-> "array", str |-> "", members |-> ms]

JSObject(ms) == [type |-> "object", str |-> "", members |-> ms]

-----------------------------------------------------------------------------
(* String.prototype.trim on the review text *)

WhiteSpace == {" ", "\n", "\t"}

Chars == {" ", "a"}

RECURSIVE TrimStart(_)
TrimStart(s) ==
    IF s = <<>> THEN <<>>
    ELSE IF Head(s) \in WhiteSpace THEN TrimStart(Tail(s))
    ELSE s

RECURSIVE TrimEnd(_)
TrimEnd(s) ==
    IF s = <<>> THEN <<>>
    ELSE IF s[Len(s)] \in WhiteSpace THEN TrimEnd(SubSeq(s, 1, Len(s) - 1))
    ELSE s

Trim(s) == TrimEnd(TrimStart(s))

Texts == UNION {[1..n -> Chars] : n \in 0..MaxLen}

-----------------------------------------------------------------------------
(* JSON.parse on the tokens of response.text *)

Tok(t, s) == [t |-> t, s |-> s]

Str(s) == Tok("string", s)

Num(s) == Tok("number", s)

Lit(s) == Tok("literal", s)

P(s) == Tok("punct", s)

Ws == Tok("ws", " ")

Word(s) == Tok("word", s)

RECURSIVE SkipWs(_)
SkipWs(toks) ==
    IF toks = <<>> THEN <<>>
    ELSE IF Head(toks).t = "ws" THEN SkipWs(Tail(toks))
    ELSE toks

ParseOk(v, rest) == [ok |-> TRUE, val |-> v, rest |-> rest, msg |-> ""]

ParseFail(m) == [ok |-> FALSE, val |-> JSNull, rest |-> <<>>, msg |-> m]

EndOfInput == "Unexpected end of JSON input"

UnexpectedToken(tok) == "Unexpected token " \o tok.s

(* A later duplicate key replaces the value and keeps the key's place. *)
PutMember(ms, k, v) ==
    IF \E i \in 1..Len(ms) : ms[i].key = k
    THEN [i \in 1..Len(ms) |-> IF ms[i].key = k THEN [key |-> k, val |-> v] ELSE ms[i]]
    ELSE Append(ms, [key |-> k, val |-> v])

LiteralValue(s) ==
    IF s = "null" THEN JSNull ELSE JSBoolean(s)

RECURSIVE ParseValue(_), ParseMembers(_, _, _), ParseElements(_, _, _)

ParseValue(toks) ==
    LET ts == SkipWs(toks) IN
    IF ts = <<>> THEN ParseFail(EndOfInput)
    ELSE LET h == Head(ts)
             r == Tail(ts)
         IN CASE h.t = "string" -> ParseOk(JSString(h.s), r)
              [] h.t = "number" -> ParseOk(JSNumber(h.s), r)
              [] h.t = "literal" -> ParseOk(LiteralValue(h.s), r)
              [] h = P("{") -> ParseMembers(r, <<>>, TRUE)
              [] h = P("[") -> ParseElements(r, <<>>, TRUE)
              [] OTHER -> ParseFail(UnexpectedToken(h))

(* After "{" (first) or after a "," inside an object. *)
ParseMembers(toks, acc, first) ==
    LET ts == SkipWs(toks) IN
    IF ts = <<>> THEN ParseFail(EndOfInput)
    ELSE IF first /\ Head(ts) = P("}") THEN ParseOk(JSObject(acc), Tail(ts))
    ELSE IF Head(ts).t # "string" THEN ParseFail(UnexpectedToken(Head(ts)))
    ELSE LET key == Head(ts).s
             c == SkipWs(Tail(ts))
         IN IF c = <<>> THEN ParseFail(EndOfInput)
            ELSE IF Head(c) # P(":") THEN ParseFail(UnexpectedToken(Head(c)))
            ELSE LET v == ParseValue(Tail(c)) IN
                 IF ~v.ok THEN v
                 ELSE LET d == SkipWs(v.rest)
                          ms == PutMember(acc, key, v.val)
                      IN IF d = <<>> THEN ParseFail(EndOfInput)
                         ELSE IF Head(d) = P(",") THEN ParseMembers(Tail(d), ms, FALSE)
                         ELSE IF Head(d) = P("}") THEN ParseOk(JSObject(ms), Tail(d))
                         ELSE ParseFail(UnexpectedToken(Head(d)))

(* After "[" (first) or after a "," inside an array. *)
ParseElements(toks, acc, first) ==
    LET ts == SkipWs(toks) IN
    IF ts = <<>> THEN ParseFail(EndOfInput)
    ELSE IF first /\ Head(ts) = P("]") THEN ParseOk(JSArray(acc), Tail(ts))
    ELSE LET v == ParseValue(ts) IN
         IF ~v.ok THEN v
         ELSE LET d == SkipWs(v.rest)
                  ms == Append(acc, [key |-> "", val |-> v.val])
              IN IF d = <<>> THEN ParseFail(EndOfInput)
                 ELSE IF Head(d) = P(",") THEN ParseElements(Tail(d), ms, FALSE)
                 ELSE IF Head(d) = P("]") THEN ParseOk(JSArray(ms), Tail(d))
                 ELSE ParseFail(UnexpectedToken(Head(d)))

(* JSON.parse(text): the value, or the SyntaxError it throws. *)
JSONParse(text) ==
    LET r == ParseValue(text) IN
    IF ~r.ok THEN [threw |-> TRUE, val |-> JSNull, msg |-> r.msg]
    ELSE IF SkipWs(r.rest) # <<>>
         THEN [threw |-> TRUE, val |-> JSNull, msg |-> UnexpectedToken(Head(SkipWs(r.rest)))]
    ELSE [threw |-> FALSE, val |-> r.val, msg |-> ""]

-----------------------------------------------------------------------------
(* The response schema and the payloads the external model may return *)

RequiredFields ==
    {"sentiment", "confidence", "top_themes", "tone", "is_sarcastic", "summary"}

HasMember(v, k) == \E i \in 1..Len(v.members) : v.members[i].key = k

HasRequiredFields(v) ==
    v.type = "object" /\ \A k \in RequiredFields : HasMember(v, k)

MixedPayload ==
    << P("{"), Str("sentiment"), P(":"), Str("Mixed"), P(","),
       Str("confidence"), P(":"), Num("0.9"), P(","),
       Str("top_themes"), P(":"), P("["), Str("Battery Life"), P(","), Str("Packaging"), P("]"), P(","),
       Str("tone"), P(":"), Str("Frustration"), P(","),
       Str("is_sarcastic"), P(":"), Lit("true"), P(","),
       Str("summary"), P(":"), Str("Good battery, bad delivery."), P("}") >>

PositivePayload ==
    << P("{"), Ws, Str("sentiment"), P(":"), Ws, Str("Positive"), P(","),
       Str("confidence"), P(":"), Num("1"), P(","),
       Str("top_themes"), P(":"), P("["), P("]"), P(","),
       Str("tone"), P(":"), Str("Satisfaction"), P(","),
       Str("is_sarcastic"), P(":"), Lit("false"), P(","),
       Str("summary"), P(":"), Str("Works well."), Ws, P("}"), Ws >>

(* A well-formed object without the summary field. *)
NoSummaryPayload ==
    << P("{"), Str("sentiment"), P(":"), Str("Negative"), P(","),
       Str("confidence"), P(":"), Num("0.5"), P(","),
       Str("top_themes"), P(":"), P("["), Str("Price"), P("]"), P(","),
       Str("tone"), P(":"), Str("Disappointment"), P(","),
       Str("is_sarcastic"), P(":"), Lit("false"), P("}") >>

EmptyObjectPayload == << P("{"), P("}") >>

NullPayload == << Lit("null") >>

ProsePayload == << Word("Sorry"), Ws, Word("I") >>

TruncatedPayload == << P("{"), Str("sentiment"), P(":") >>

BlankPayload == << Ws >>

Payloads ==
    { MixedPayload, PositivePayload, NoSummaryPayload, EmptyObjectPayload,
      NullPayload, ProsePayload, TruncatedPayload, BlankPayload, <<>> }

(* response.text is a string, or undefined when the response has no text part. *)
Responses ==
    {[hasText |-> TRUE, text |-> p] : p \in Payloads} \cup {[hasText |-> FALSE, text |-> <<>>]}

(* Values a rejected call may carry. *)
ErrorInstance(m) == [instanceofError |-> TRUE, hasMessage |-> TRUE, message |-> m]

Reasons ==
    { ErrorInstance("Failed to fetch"),
      ErrorInstance(""),
      [instanceofError |-> FALSE, hasMessage |-> TRUE, message |-> "quota exceeded"],
      [instanceofError |-> FALSE, hasMessage |-> FALSE, message |-> ""] }

NoReason == [instanceofError |-> FALSE, hasMessage |-> FALSE, message |-> ""]

NoAnalysisMessage == "No analysis received from the model."

FallbackMessage == "An unexpected error occurred during analysis."

-----------------------------------------------------------------------------
(* State *)

VARIABLES
    review,     \* useState(''): the textarea's text
    loading,    \* useState(false)
    result,     \* useState<AnalysisResult | null>(null)
    error,      \* useState<string | null>(null)
    inflight,   \* number of generateContent calls that have not settled
    response,   \* how the call that settled last settled
    lastOp      \* the handler that ran last

vars == <<review, loading, result, error, inflight, response, lastOp>>

NoResponse == [status |-> "none", hasText |-> FALSE, text |-> <<>>, reason |-> NoReason]

FulfilledWith(r) ==
    [status |-> "fulfilled", hasText |-> r.hasText, text |-> r.text, reason |-> NoReason]

RejectedWith(e) == [status |-> "rejected", hasText |-> FALSE, text |-> <<>>, reason |-> e]

Init ==
    /\ review = <<>>
    /\ loading = FALSE
    /\ result = JSNull
    /\ error = JSNull
    /\ inflight = 0
    /\ response = NoResponse
    /\ lastOp = "init"

(* disabled={loading || !review.trim()} *)
ButtonDisabledIgnoresLoading == Trim(review) = <<>>

ButtonDisabled == loading \/ Trim(review) = <<>>

(* onChange={(e) => setReview(e.target.value)} *)
setReview(v) ==
    /\ review' = v
    /\ lastOp' = "setReview"
    /\ UNCHANGED <<loading, result, error, inflight, response>>

StartRequestKeepsError ==
    /\ loading' = TRUE
    /\ result' = JSNull
    /\ inflight' = inflight + 1
    /\ UNCHANGED error

StartRequestKeepsResult ==
    /\ loading' = TRUE
    /\ error' = JSNull
    /\ inflight' = inflight + 1
    /\ UNCHANGED result

(* setLoading(true); setError(null); setResult(null); then the call is issued. *)
StartRequest ==
    /\ loading' = TRUE
    /\ error' = JSNull
    /\ result' = JSNull
    /\ inflight' = inflight + 1

analyzeReviewWithoutGuard ==
    /\ lastOp' = "analyzeReview"
    /\ inflight < MaxInFlight
    /\ StartRequest
    /\ UNCHANGED <<review, response>>

(* analyzeReview up to its await. *)
analyzeReview ==
    /\ lastOp' = "analyzeReview"
    /\ IF Trim(review) = <<>>
       THEN UNCHANGED <<review, loading, result, error, inflight, response>>
       ELSE /\ inflight < MaxInFlight
            /\ StartRequest
            /\ UNCHANGED <<review, response>>

(* A click on the Run Analysis button reaches onClick only when it is enabled. *)
(* The three state updates made before the await are rendered with the click  *)
(* itself, so the next click meets the button as this state shows it.         *)
ClickRunAnalysis ==
    /\ ~ButtonDisabled
    /\ analyzeReview

TextTruthyWhenDefined(r) == r.hasText

(* if (text) *)
TextTruthy(r) == r.hasText /\ r.text # <<>>

Returned(v) == [threw |-> FALSE, val |-> v, err |-> NoReason]

Threw(e) == [threw |-> TRUE, val |-> JSNull, err |-> e]

HandleTextSwallowsParseError(r) ==
    IF TextTruthy(r)
    THEN Returned(JSONParse(r.text).val)
    ELSE Threw(ErrorInstance(NoAnalysisMessage))

HandleTextWithoutParse(r) ==
    IF TextTruthy(r)
    THEN Returned(JSString("raw"))
    ELSE Threw(ErrorInstance(NoAnalysisMessage))

(* The try block after the await: the value given to setResult, or what is thrown. *)
HandleText(r) ==
    IF TextTruthy(r)
    THEN LET p == JSONParse(r.text) IN
         IF p.threw THEN Threw(ErrorInstance(p.msg)) ELSE Returned(p.val)
    ELSE Threw(ErrorInstance(NoAnalysisMessage))

CatchErrorAlwaysFallback(e) == JSString(FallbackMessage)

(* setError(err instanceof Error ? err.message : "An unexpected error ...") *)
CatchError(e) ==
    JSString(IF e.instanceofError THEN e.message ELSE FallbackMessage)

(* An outstanding call resolves with r: try, catch, finally. *)
Resolve(r) ==
    /\ inflight > 0
    /\ LET o == HandleText(r) IN
       IF o.threw
       THEN error' = CatchError(o.err) /\ UNCHANGED result
       ELSE result' = o.val /\ UNCHANGED error
    /\ loading' = FALSE
    /\ inflight' = inflight - 1
    /\ response' = FulfilledWith(r)
    /\ lastOp' = "resolve"
    /\ UNCHANGED review

(* An outstanding call rejects with e: catch, finally. *)
Reject(e) ==
    /\ inflight > 0
    /\ error' = CatchError(e)
    /\ loading' = FALSE
    /\ inflight' = inflight - 1
    /\ response' = RejectedWith(e)
    /\ lastOp' = "reject"
    /\ UNCHANGED <<review, result>>

EditText == \E v \in Texts : setReview(v)

CallResolves == \E r \in Responses : Resolve(r)

CallRejects == \E e \in Reasons : Reject(e)

(* The application as the user drives it. *)
Next == EditText \/ ClickRunAnalysis \/ CallResolves \/ CallRejects

Spec == Init /\ [][Next]_vars

(* The handler invoked directly, whatever the button shows. *)
NextDirect == EditText \/ analyzeReview \/ CallResolves \/ CallRejects

SpecDirect == Init /\ [][NextDirect]_vars

-----------------------------------------------------------------------------
(* Properties *)

(* No call is outstanding and the last one settled by resolving. *)
SettledFulfilled == inflight = 0 /\ response.status = "fulfilled"

(* No call is outstanding and the last one settled by rejecting. *)
SettledRejected == inflight = 0 /\ response.status = "rejected"

Parsed == JSONParse(response.text)

(* C1: at most one request to the external model is outstanding, and while *)
(* one is outstanding the Run Analysis button is disabled, so no second    *)
(* analyzeReview can start before the call has settled.                    *)
C1_SingleFlight ==
    /\ inflight <= 1
    /\ (inflight > 0 => ButtonDisabled)

(* A request is outstanding while the text would otherwise enable the button. *)
C1_Witness == inflight = 1 /\ loading /\ Trim(review) # <<>>

(* C2: every step in which the external call resolves or rejects leaves   *)
(* Loading with a result present or an error present, never neither.       *)
C2_SettleLeavesLoading ==
    [][(inflight' < inflight) =>
          (~loading' /\ (result' # JSNull \/ error' # JSNull))]_vars

(* C3: invoking analyzeReview while the trimmed review is empty changes    *)
(* neither loading, result nor error and issues no request, in any state.  *)
C3_BlankInputIsNoOp ==
    [][(lastOp' = "analyzeReview" /\ Trim(review) = <<>>) =>
          UNCHANGED <<review, loading, result, error, inflight, response>>]_vars

(* analyzeReview ran on a whitespace-only review while an error was shown. *)
C3_Witness ==
    /\ lastOp = "analyzeReview"
    /\ review # <<>>
    /\ Trim(review) = <<>>
    /\ error # JSNull
    /\ ~loading

(* C4: invoking analyzeReview with a non-blank review from Idle, Success   *)
(* or Error clears result and error, enters Loading and issues one call,   *)
(* all in the step of the invocation, before the call can settle.          *)
C4_InvocationClearsAndLoads ==
    [][(lastOp' = "analyzeReview" /\ ~loading /\ Trim(review) # <<>>) =>
          /\ loading'
          /\ result' = JSNull
          /\ error' = JSNull
          /\ inflight' = inflight + 1]_vars

(* A new request is running after an earlier one ended in Error. *)
C4_Witness ==
    /\ lastOp = "analyzeReview"
    /\ loading
    /\ response.status = "rejected"
    /\ error = JSNull
    /\ result = JSNull

MixedAnalysis ==
    JSObject(<< [key |-> "sentiment", val |-> JSString("Mixed")],
                [key |-> "confidence", val |-> JSNumber("0.9")],
                [key |-> "top_themes",
                 val |-> JSArray(<< [key |-> "", val |-> JSString("Battery Life")],
                                    [key |-> "", val |-> JSString("Packaging")] >>)],
                [key |-> "tone", val |-> JSString("Frustration")],
                [key |-> "is_sarcastic", val |-> JSBoolean("true")],
                [key |-> "summary", val |-> JSString("Good battery, bad delivery.")] >>)

(* C5: when the call resolved with a payload that parses into the six      *)
(* required fields, result is exactly the parsed object, error is null and *)
(* loading is false.                                                       *)
C5_ParsedResultIsHeld ==
    (SettledFulfilled /\ TextTruthy(response) /\ ~Parsed.threw
        /\ HasRequiredFields(Parsed.val)) =>
       /\ result = Parsed.val
       /\ (response.text = MixedPayload => result = MixedAnalysis)
       /\ error = JSNull
       /\ ~loading

C5_Witness ==
    /\ SettledFulfilled
    /\ response.text = MixedPayload
    /\ result = MixedAnalysis
    /\ HasRequiredFields(result)

(* C6: the controller never holds a result that lacks one of the six       *)
(* required fields.                                                        *)
C6_ResultHasRequiredFields ==
    result # JSNull => HasRequiredFields(result)

(* C7 as stated: after a rejection, error is the rejection's message when  *)
(* the rejected value has one (Error instance or not), else the fallback,  *)
(* and result is null.                                                     *)
C7_MessageWheneverCarried ==
    SettledRejected =>
       /\ error = JSString(IF response.reason.hasMessage
                           THEN response.reason.message
                           ELSE FallbackMessage)
       /\ result = JSNull

(* C7 amended: after a rejection, error is the message of the rejected     *)
(* value when that value is an Error instance (an empty message included)  *)
(* and the fallback for every other value, result is null, loading false.  *)
C7_MessageOfErrorInstances ==
    SettledRejected =>
       /\ error = JSString(IF response.reason.instanceofError
                           THEN response.reason.message
                           ELSE FallbackMessage)
       /\ result = JSNull
       /\ ~loading

(* The rejected value was not an Error but had a message; the fallback shows. *)
C7_Witness ==
    /\ SettledRejected
    /\ ~response.reason.instanceofError
    /\ response.reason.hasMessage
    /\ error = JSString(FallbackMessage)

Unparseable == TextTruthy(response) /\ Parsed.threw

(* The message shown for one unparseable payload. *)
ProseFailureMessage == JSONParse(ProsePayload).msg

(* C8 as stated: every non-empty unparseable payload ends in Error with    *)
(* one and the same message, and result null.                              *)
C8_OneFixedParseMessage ==
    (SettledFulfilled /\ Unparseable) =>
       /\ error = JSString(ProseFailureMessage)
       /\ result = JSNull

(* C8 amended: a non-empty unparseable payload ends in Error holding the   *)
(* message of the SyntaxError JSON.parse threw for that payload, which is  *)
(* neither the fallback nor the no-analysis message; result is null and    *)
(* loading false.                                                          *)
C8_SyntaxErrorMessageIsHeld ==
    (SettledFulfilled /\ Unparseable) =>
       /\ error = JSString(Parsed.msg)
       /\ Parsed.msg \notin {"", FallbackMessage, NoAnalysisMessage}
       /\ result = JSNull
       /\ ~loading

C8_Witness ==
    /\ SettledFulfilled
    /\ response.text = TruncatedPayload
    /\ error = JSString(EndOfInput)
    /\ error # JSString(ProseFailureMessage)

(* C9: when the call resolved with no text or with the empty string, error *)
(* is the no-analysis message, result is null and loading is false.        *)
C9_EmptyPayloadIsError ==
    (SettledFulfilled /\ (~response.hasText \/ response.text = <<>>)) =>
       /\ error = JSString(NoAnalysisMessage)
       /\ result = JSNull
       /\ ~loading

(* The response had a text, and it was the empty string. *)
C9_Witness ==
    /\ SettledFulfilled
    /\ response.hasText
    /\ response.text = <<>>
    /\ error = JSString(NoAnalysisMessage)

(* C10: result and error are never both non-null, and while loading both   *)
(* are null.                                                               *)
C10_ResultErrorExclusive ==
    /\ ~(result # JSNull /\ error # JSNull)
    /\ (loading => (result = JSNull /\ error = JSNull))

(* Loading again after an earlier request ended in Success. *)
C10_Witness ==
    /\ loading
    /\ response.status = "fulfilled"
    /\ ~JSONParse(response.text).threw
    /\ HasRequiredFields(JSONParse(response.text).val)

=============================================================================
